---- MODULE Spec2Model ----
(***************************************************************************)
(* Model of the directory-tree renderer src/Phase2/store_os/struc.py:      *)
(* class DirectoryTree (generate_tree, _walk_directory) and the function   *)
(* print_directory_tree, run against a small file system.                  *)
(*                                                                         *)
(* Text is modelled character by character: a string is a sequence of      *)
(* one-character strings.  The four box-drawing characters cannot be       *)
(* written in a TLA+ string, so each is the one token naming its code      *)
(* point: "U+2502" is the vertical bar, "U+251C" the tee, "U+2514" the     *)
(* corner and "U+2500" the horizontal bar.  Standard output is modelled    *)
(* byte by byte: a byte below 128 is the one-character string of its       *)
(* character, any other byte is the token of its value, such as "0xE2".    *)
(***************************************************************************)
EXTENDS Naturals, Sequences, FiniteSets, TLC

\* ------------------------------------------------------------ bounds
\* Most entries the file system ever holds.
MaxEntries == 3
\* Deepest entry: the number of names on its path below the root.
MaxDepth == 2
\* The same two bounds of the deeper file systems, built of fewer names, on
\* which the prefix of a line has more than one group.
MaxDeepEntries == 4
MaxDeepDepth == 3

\* ------------------------------------------------------------ characters
NL == "\n"

\* ord(c) of the characters the model uses.
Ord(c) ==
    CASE c = "-" -> 45
      [] c = "." -> 46
      [] c = "/" -> 47
      [] c = "B" -> 66
      [] c = "a" -> 97
      [] c = "b" -> 98
      [] c = "h" -> 104
      [] c = "r" -> 114

\* str.lower() on one character.
LowerChar(c) == IF c = "B" THEN "b" ELSE c

\* str.lower(): every character lowered.
Lower(s) == [i \in 1..Len(s) |-> LowerChar(s[i])]

\* Python's s < t on strings: lexicographic by code point, a proper prefix first.
RECURSIVE StrLess(_, _)
StrLess(s, t) ==
    IF t = <<>> THEN FALSE
    ELSE IF s = <<>> THEN TRUE
    ELSE IF Ord(Head(s)) < Ord(Head(t)) THEN TRUE
    ELSE IF Ord(Head(s)) > Ord(Head(t)) THEN FALSE
    ELSE StrLess(Tail(s), Tail(t))

\* str.startswith('.')
StartsWithDot(s) == Len(s) > 0 /\ s[1] = "."

\* The entries the environment may create, by name and kind.  "-" is visible
\* and sorts before the hidden ".h"; "a" sorts before "B" only once both are
\* lowered; "B" and "b" have the same sort key.  ".h" and "B" may be a file
\* or a directory, the others are files.
Entries ==
    { [name |-> <<"-">>,      is_dir |-> FALSE],
      [name |-> <<".", "h">>, is_dir |-> FALSE],
      [name |-> <<".", "h">>, is_dir |-> TRUE],
      [name |-> <<"a">>,      is_dir |-> FALSE],
      [name |-> <<"B">>,      is_dir |-> FALSE],
      [name |-> <<"B">>,      is_dir |-> TRUE],
      [name |-> <<"b">>,      is_dir |-> FALSE] }

\* The entries of the deeper file systems: a directory "B" that is the last
\* of its siblings beside "a" and is not when "b" is listed after it, and a
\* hidden file that sorts before them all and changes nothing.
DeepEntries ==
    { [name |-> <<".", "h">>, is_dir |-> FALSE],
      [name |-> <<"a">>,      is_dir |-> FALSE],
      [name |-> <<"B">>,      is_dir |-> TRUE],
      [name |-> <<"b">>,      is_dir |-> FALSE] }

\* The entries of the file systems print_directory_tree is run on.
PrintedEntries ==
    { [name |-> <<"a">>, is_dir |-> FALSE],
      [name |-> <<"B">>, is_dir |-> TRUE] }

\* The arguments a caller may pass as the root path; all name the same
\* directory of the model's file system.
RootArgs == { <<"r">>, <<".", "/", "r", "/">> }

\* ------------------------------------------------------------ pathlib
\* s.split('/'): the components between slashes, empty ones included.
RECURSIVE SplitSlash(_, _)
SplitSlash(s, cur) ==
    IF s = <<>> THEN <<cur>>
    ELSE IF Head(s) = "/" THEN <<cur>> \o SplitSlash(Tail(s), <<>>)
    ELSE SplitSlash(Tail(s), Append(cur, Head(s)))

\* '/'.join(parts)
RECURSIVE JoinSlash(_)
JoinSlash(parts) ==
    IF parts = <<>> THEN <<>>
    ELSE IF Len(parts) = 1 THEN parts[1]
    ELSE parts[1] \o <<"/">> \o JoinSlash(Tail(parts))

\* The root pathlib keeps: "//" for exactly two leading slashes, "/" for one or
\* for three and more, nothing for a relative path.
PathRoot(s) ==
    IF Len(s) >= 1 /\ s[1] = "/"
    THEN IF Len(s) >= 2 /\ s[2] = "/" /\ ~(Len(s) >= 3 /\ s[3] = "/")
         THEN <<"/", "/">>
         ELSE <<"/">>
    ELSE <<>>

\* str(Path(s)): empty and "." components dropped, slashes collapsed, no
\* trailing slash; "." when nothing is left.
PathStr(s) ==
    LET parts == SelectSeq(SplitSlash(s, <<>>), LAMBDA x : x # <<>> /\ x # <<".">>)
        text  == PathRoot(s) \o JoinSlash(parts)
    IN  IF text = <<>> THEN <<".">> ELSE text

\* os.path.join(str(directory), name), as os.scandir builds DirEntry.path.
JoinPath(dir, name) ==
    IF dir # <<>> /\ dir[Len(dir)] = "/" THEN dir \o name ELSE dir \o <<"/">> \o name

\* The path string of the node `node` (a sequence of names below the root)
\* when the walk started at root_dir.
RECURSIVE NodePath(_, _)
NodePath(root, node) ==
    IF node = <<>> THEN root
    ELSE JoinPath(NodePath(root, SubSeq(node, 1, Len(node) - 1)), node[Len(node)])

\* ------------------------------------------------------------ state
VARIABLES
    rootKind,   \* the root path on disk: "dir", "file" or "missing"
    disk,       \* the directories of the tree: disk[d] is the sequence of the
                \* entries [name, is_dir] of the directory d in the order the
                \* platform lists them, d being the sequence of names from
                \* the root
    path,       \* the argument the object was constructed with; <<>> while
                \* no object exists
    root_dir,   \* DirectoryTree.root_dir as str(); <<>> while no object exists
    tree_str,   \* DirectoryTree.tree_str
    stack,      \* the activations of _walk_directory, outermost first
    pc,         \* "idle", "walk", "return" (generate_tree about to return),
                \* "raised" (an exception is in flight below the handler),
                \* "printed" (print_directory_tree about to return) or
                \* "escaped" (an exception leaves print_directory_tree)
    caller,     \* "print" inside print_directory_tree, "direct" for a caller
                \* that holds the object itself, "none" when idle
    exc,        \* str(e) of the exception in flight, <<>> when none
    stdout,     \* the bytes the print_directory_tree call in progress has
                \* written to standard output
    rendered,   \* the nodes whose line the current call has appended, in order
    prev,       \* what the object's last successful generate_tree returned and
                \* the file system it saw, in a sequence that is empty before
    failed      \* whether a generate_tree call on the object has raised after
                \* it appended an entry's line

fs == <<rootKind, disk>>

vars == <<fs, path, root_dir, tree_str, stack, pc, caller, exc, stdout, rendered,
          prev, failed>>

\* ------------------------------------------------------------ file system
Parent(node) == SubSeq(node, 1, Len(node) - 1)
NameOf(node) == node[Len(node)]

\* The directories below the root and all the entries below the root.
DirNodes == DOMAIN disk \ {<<>>}
Nodes == UNION { { Append(d, disk[d][i].name) : i \in 1..Len(disk[d]) } : d \in DOMAIN disk }

\* The texts of the OSErrors of the model, "[Errno n] strerror", character by
\* character.
EACCES ==
    <<"[", "E", "r", "r", "n", "o", " ", "1", "3", "]", " ", "P", "e", "r",
      "m", "i", "s", "s", "i", "o", "n", " ", "d", "e", "n", "i", "e", "d">>
ENOENT ==
    <<"[", "E", "r", "r", "n", "o", " ", "2", "]", " ", "N", "o", " ", "s",
      "u", "c", "h", " ", "f", "i", "l", "e", " ", "o", "r", " ", "d", "i",
      "r", "e", "c", "t", "o", "r", "y">>
ENOTDIR ==
    <<"[", "E", "r", "r", "n", "o", " ", "2", "0", "]", " ", "N", "o", "t",
      " ", "a", " ", "d", "i", "r", "e", "c", "t", "o", "r", "y">>
ENOSPC ==
    <<"[", "E", "r", "r", "n", "o", " ", "2", "8", "]", " ", "N", "o", " ",
      "s", "p", "a", "c", "e", " ", "l", "e", "f", "t", " ", "o", "n", " ",
      "d", "e", "v", "i", "c", "e">>

\* str(e) of an OSError without a file name, by the name of its errno.
StrError(errno) ==
    CASE errno = "EACCES"  -> EACCES
      [] errno = "ENOENT"  -> ENOENT
      [] errno = "ENOTDIR" -> ENOTDIR
      [] errno = "ENOSPC"  -> ENOSPC

\* A listing that raises nothing.
NoError == "ok"

\* The errors os.scandir raises for a directory of the tree that cannot be
\* listed at the moment the walk reaches it.  Every OSError takes the same
\* path through the code; the model raises the one for an unreadable directory.
ListErrors == { "EACCES" }

\* What os.scandir does with the root path as the disk holds it: the errno
\* of the OSError it raises, or none.
RootError ==
    IF rootKind = "missing" THEN "ENOENT"
    ELSE IF rootKind = "file" THEN "ENOTDIR"
    ELSE NoError

\* str(e) of the OSError os.scandir raises: the errno text, then the quoted path.
ErrorText(err, filename) == StrError(err) \o <<":", " ", "'">> \o filename \o <<"'">>

\* list(os.scandir(node)): the entries of the directory in the order the
\* platform lists them, as DirEntry records.
Scandir(node) ==
    [i \in 1..Len(disk[node]) |->
        [name |-> disk[node][i].name, node |-> Append(node, disk[node][i].name),
         is_dir |-> disk[node][i].is_dir]]

\* ------------------------------------------------------------ DirectoryTree
\* __init__: the drawing strings.
indent == <<" ", " ", " ", " ">>
branch == <<"U+2502", " ", " ", " ">>
tee    == <<"U+251C", "U+2500", "U+2500", " ">>
last   == <<"U+2514", "U+2500", "U+2500", " ">>

\* A sort key that forgets to lower the name.
SortKeyRaw(e) == e.name

\* The sort key of _walk_directory: key=lambda e: e.name.lower()
SortKey(e) == Lower(e.name)

\* One step of the stable sort: e goes before the first element whose key is
\* strictly greater, so entries with equal keys keep their listing order.
RECURSIVE InsertSorted(_, _)
InsertSorted(sorted, e) ==
    IF sorted = <<>> THEN <<e>>
    ELSE IF StrLess(SortKey(e), SortKey(Head(sorted))) THEN <<e>> \o sorted
    ELSE <<Head(sorted)>> \o InsertSorted(Tail(sorted), e)

\* sorted(entries, key=...): stable, ascending.
RECURSIVE Sorted(_)
Sorted(entries) ==
    IF entries = <<>> THEN <<>>
    ELSE InsertSorted(Sorted(SubSeq(entries, 1, Len(entries) - 1)),
                      entries[Len(entries)])

\* A filter that lets every entry through.
VisibleAll(entries) == entries

\* A filter that drops hidden files and lets hidden directories through.
VisibleButHiddenDirs(entries) ==
    SelectSeq(entries, LAMBDA e : ~StartsWithDot(e.name) \/ e.is_dir)

\* [e for e in entries if not e.name.startswith('.')]
Visible(entries) == SelectSeq(entries, LAMBDA e : ~StartsWithDot(e.name))

\* The entries _walk_directory loops over in `node`.
ListEntries(node) == Visible(Sorted(Scandir(node)))

\* A last-entry test that is off by one: idx == len(entries).
IsLastOffByOne(idx, entries) == idx = Len(entries)

\* is_last = idx == len(entries) - 1, idx counted from 0.
IsLast(idx, entries) == idx + 1 = Len(entries)

\* connector = self.last if is_last else self.tee
Connector(is_last) == IF is_last THEN last ELSE tee

\* f"{prefix}{connector}{entry.name}\n"
EntryLine(prefix, is_last, name) == prefix \o Connector(is_last) \o name \o <<NL>>

\* A next prefix that puts the new group before the inherited ones.
NextPrefixPrepended(prefix, is_last) == (IF is_last THEN indent ELSE branch) \o prefix

\* next_prefix = prefix + ("    " if is_last else self.branch)
NextPrefix(prefix, is_last) == prefix \o (IF is_last THEN indent ELSE branch)

\* A fresh activation of _walk_directory(node, prefix), its listing done.
Frame(node, prefix) ==
    [current_path |-> node, prefix |-> prefix, entries |-> ListEntries(node), idx |-> 0]

Top == stack[Len(stack)]

\* ------------------------------------------------------------ environment
\* Another process creates an entry, while no DirectoryTree object exists.
\* Where the platform lists the new entry among those of its directory is the
\* platform's choice: pos entries come before it.
Create(parent, name, is_dir, pos) ==
    /\ pc = "idle"
    /\ root_dir = <<>>
    /\ rootKind = "dir"
    /\ parent \in DOMAIN disk
    /\ Append(parent, name) \notin Nodes
    /\ pos <= Len(disk[parent])
    /\ LET entry == [name |-> name, is_dir |-> is_dir]
           dirs  == DOMAIN disk \cup (IF is_dir THEN {Append(parent, name)} ELSE {})
       IN  disk' = [d \in dirs |->
                      IF d = parent
                      THEN SubSeq(disk[d], 1, pos) \o <<entry>>
                              \o SubSeq(disk[d], pos + 1, Len(disk[d]))
                      ELSE IF d \in DOMAIN disk THEN disk[d] ELSE <<>>]
    /\ UNCHANGED <<rootKind, path, root_dir, tree_str, stack, pc, caller,
                   exc, stdout, rendered, prev, failed>>

\* The file system grows by one of the given entries, up to max_entries
\* entries in all and none deeper than max_depth.
Grow(entries, max_entries, max_depth) ==
    /\ pc = "idle"
    /\ Cardinality(Nodes) < max_entries
    /\ \E parent \in DOMAIN disk, e \in entries, pos \in 0..max_entries :
          /\ Len(parent) < max_depth
          /\ Create(parent, e.name, e.is_dir, pos)

\* ------------------------------------------------------------ operations
\* What listing the root may do: what the disk dictates, or a refusal.
RootOutcomes == IF RootError = NoError THEN {NoError} \cup ListErrors ELSE {RootError}

\* A generate_tree that adds the root line to the buffer it finds
\* (tree_str += ...) instead of starting a new one.
BeginGenerateAppending(rd, err) ==
    /\ tree_str' = tree_str \o rd \o <<NL>>
    /\ rendered' = <<>>
    /\ IF err = NoError
       THEN /\ stack' = <<Frame(<<>>, <<>>)>>
            /\ pc' = "walk"
            /\ exc' = <<>>
       ELSE /\ stack' = <<>>
            /\ pc' = "raised"
            /\ exc' = ErrorText(err, rd)

\* The body of generate_tree up to the end of the root's listing, on an object
\* whose root_dir is rd: the buffer is set to the root line, then
\* _walk_directory(root_dir, "") lists the root or raises err.
BeginGenerate(rd, err) ==
    /\ tree_str' = rd \o <<NL>>
    /\ rendered' = <<>>
    /\ IF err = NoError
       THEN /\ stack' = <<Frame(<<>>, <<>>)>>
            /\ pc' = "walk"
            /\ exc' = <<>>
       ELSE /\ stack' = <<>>
            /\ pc' = "raised"
            /\ exc' = ErrorText(err, rd)

\* tree = DirectoryTree(path) by a caller that keeps the object.
Construct(arg) ==
    /\ pc = "idle"
    /\ root_dir = <<>>
    /\ path' = arg
    /\ root_dir' = PathStr(arg)
    /\ tree_str' = <<>>
    /\ prev' = <<>>
    /\ failed' = FALSE
    /\ UNCHANGED <<fs, stack, pc, caller, exc, stdout, rendered>>

\* The caller drops the object it kept.
Drop ==
    /\ pc = "idle"
    /\ root_dir # <<>>
    /\ path' = <<>>
    /\ root_dir' = <<>>
    /\ tree_str' = <<>>
    /\ prev' = <<>>
    /\ failed' = FALSE
    /\ UNCHANGED <<fs, stack, pc, caller, exc, stdout, rendered>>

\* tree.generate_tree() on the object a caller keeps.
GenerateTree(err) ==
    /\ pc = "idle"
    /\ root_dir # <<>>
    /\ caller' = "direct"
    /\ BeginGenerate(root_dir, err)
    /\ UNCHANGED <<fs, path, root_dir, stdout, prev, failed>>

\* print_directory_tree(path): a fresh object, then its generate_tree().
PrintDirectoryTree(arg, err) ==
    /\ pc = "idle"
    /\ root_dir = <<>>
    /\ caller' = "print"
    /\ path' = arg
    /\ root_dir' = PathStr(arg)
    /\ stdout' = <<>>
    /\ BeginGenerate(PathStr(arg), err)
    /\ UNCHANGED <<fs, prev, failed>>

\* A recursion that walks current_path again instead of entry.path.
DescendIntoCurrent(advanced, entry, next_prefix) ==
    Append(advanced, Frame(Parent(entry.node), next_prefix))

\* A walk that puts a directory aside and lists it only after the loop of the
\* directory that holds it.
DescendDeferred(advanced, entry, next_prefix) ==
    <<Frame(entry.node, next_prefix)>> \o advanced

\* self._walk_directory(entry.path, next_prefix) from the loop of the innermost
\* activation, whose index has moved on: the new activation goes on top.
Descend(advanced, entry, next_prefix) ==
    Append(advanced, Frame(entry.node, next_prefix))

\* One turn of the loop of the innermost activation: the entry's line is
\* appended; a file is passed, a directory is entered and listed, and a
\* listing that raises (err) unwinds every activation.
WalkEntry(err) ==
    /\ pc = "walk"
    /\ Top.idx < Len(Top.entries)
    /\ LET entry    == Top.entries[Top.idx + 1]
           is_last  == IsLast(Top.idx, Top.entries)
           advanced == [stack EXCEPT ![Len(stack)].idx = @ + 1]
       IN  /\ tree_str' = tree_str \o EntryLine(Top.prefix, is_last, entry.name)
           /\ rendered' = Append(rendered, entry.node)
           /\ IF ~entry.is_dir
              THEN /\ err = NoError
                   /\ stack' = advanced
                   /\ UNCHANGED <<pc, exc>>
              ELSE IF err = NoError
              THEN /\ stack' = Descend(advanced, entry, NextPrefix(Top.prefix, is_last))
                   /\ UNCHANGED <<pc, exc>>
              ELSE /\ stack' = <<>>
                   /\ pc' = "raised"
                   /\ exc' = ErrorText(err, NodePath(root_dir, entry.node))
    /\ UNCHANGED <<fs, path, root_dir, caller, stdout, prev, failed>>

\* The loop of the innermost activation is over: _walk_directory returns.
WalkReturn ==
    /\ pc = "walk"
    /\ Top.idx = Len(Top.entries)
    /\ stack' = SubSeq(stack, 1, Len(stack) - 1)
    /\ pc' = IF Len(stack) = 1 THEN "return" ELSE "walk"
    /\ UNCHANGED <<fs, path, root_dir, tree_str, caller, exc, stdout, rendered,
                   prev, failed>>

\* return self.tree_str, to a caller that keeps the object.
GenerateReturn ==
    /\ pc = "return"
    /\ caller = "direct"
    /\ prev' = <<[fs |-> fs, text |-> tree_str]>>
    /\ pc' = "idle"
    /\ caller' = "none"
    /\ rendered' = <<>>
    /\ UNCHANGED <<fs, path, root_dir, tree_str, stack, exc, stdout, failed>>

\* The exception leaves generate_tree to a caller that keeps the object.
GenerateRaise ==
    /\ pc = "raised"
    /\ caller = "direct"
    /\ pc' = "idle"
    /\ caller' = "none"
    /\ exc' = <<>>
    /\ rendered' = <<>>
    /\ failed' = (failed \/ rendered # <<>>)
    /\ UNCHANGED <<fs, path, root_dir, tree_str, stack, stdout, prev>>

\* ------------------------------------------------------------ print
\* The characters an ASCII stream can encode: all but the box-drawing ones.
Ascii(c) == c \notin {"U+2502", "U+251C", "U+2514", "U+2500"}

\* The escape Python shows for a character it cannot encode.
Escape(c) ==
    CASE c = "U+2502" -> <<"\\", "u", "2", "5", "0", "2">>
      [] c = "U+251C" -> <<"\\", "u", "2", "5", "1", "c">>
      [] c = "U+2514" -> <<"\\", "u", "2", "5", "1", "4">>
      [] c = "U+2500" -> <<"\\", "u", "2", "5", "0", "0">>

\* str(n) of a natural number.
Digit(d) ==
    CASE d = 0 -> "0" [] d = 1 -> "1" [] d = 2 -> "2" [] d = 3 -> "3" [] d = 4 -> "4"
      [] d = 5 -> "5" [] d = 6 -> "6" [] d = 7 -> "7" [] d = 8 -> "8" [] d = 9 -> "9"

RECURSIVE Decimal(_)
Decimal(n) == IF n < 10 THEN <<Digit(n)>> ELSE Decimal(n \div 10) \o <<Digit(n % 10)>>

\* The pieces of str(e) of a UnicodeEncodeError of the ascii codec.
CantEncode ==
    <<"'", "a", "s", "c", "i", "i", "'", " ", "c", "o", "d", "e", "c", " ",
      "c", "a", "n", "'", "t", " ", "e", "n", "c", "o", "d", "e", " ">>
CharacterQuote ==
    <<"c", "h", "a", "r", "a", "c", "t", "e", "r", " ", "'">>
QuoteInPosition ==
    <<"'", " ", "i", "n", " ", "p", "o", "s", "i", "t", "i", "o", "n", " ">>
CharactersInPosition ==
    <<"c", "h", "a", "r", "a", "c", "t", "e", "r", "s", " ", "i", "n", " ",
      "p", "o", "s", "i", "t", "i", "o", "n", " ">>
OrdinalNotInRange ==
    <<":", " ", "o", "r", "d", "i", "n", "a", "l", " ", "n", "o", "t", " ",
      "i", "n", " ", "r", "a", "n", "g", "e", "(", "1", "2", "8", ")">>

\* str(e) of the UnicodeEncodeError an ASCII stream raises for a text: it
\* names the first run of characters the stream cannot encode, by the
\* positions of its ends counted from 0.
EncodeErrorText(text) ==
    LET bad(i) == i <= Len(text) /\ ~Ascii(text[i])
        first  == CHOOSE i \in 1..Len(text) : bad(i) /\ \A h \in 1..(i - 1) : ~bad(h)
        end    == CHOOSE j \in first..Len(text) :
                      (\A k \in first..j : bad(k)) /\ ~bad(j + 1)
    IN  IF end = first
        THEN CantEncode \o CharacterQuote \o Escape(text[first]) \o QuoteInPosition
                 \o Decimal(first - 1) \o OrdinalNotInRange
        ELSE CantEncode \o CharactersInPosition
                 \o Decimal(first - 1) \o <<"-">> \o Decimal(end - 1)
                 \o OrdinalNotInRange

\* What print(text) may do, which is for standard output to decide:
\*   "written"      the text and print's newline reach standard output, in
\*                  UTF-8;
\*   "none"         sys.stdout is None (the descriptor was closed): nothing
\*                  is written and nothing raised;
\*   "unencodable"  the stream cannot encode a character of the text and
\*                  raises before it writes;
\*   "refused"      the device takes the first n bytes of the encoded text
\*                  and refuses the next, the text's or the one of print's
\*                  newline: OSError;
\*   "lost"         the stream buffers: print returns, and of what it took
\*                  only the first n bytes reach standard output when
\*                  the buffer is flushed.
PrintOutcomes(text) ==
    {"written", "none", "refused", "lost"}
        \cup (IF \E i \in 1..Len(text) : ~Ascii(text[i]) THEN {"unencodable"} ELSE {})

\* c.encode("utf-8"): one byte for an ASCII character, three for a
\* box-drawing one.
Utf8Char(c) ==
    CASE c = "U+2502" -> <<"0xE2", "0x94", "0x82">>
      [] c = "U+251C" -> <<"0xE2", "0x94", "0x9C">>
      [] c = "U+2514" -> <<"0xE2", "0x94", "0x94">>
      [] c = "U+2500" -> <<"0xE2", "0x94", "0x80">>
      [] OTHER        -> <<c>>

\* text.encode("utf-8"): the bytes of the characters, in order.
RECURSIVE Utf8(_)
Utf8(text) == IF text = <<>> THEN <<>> ELSE Utf8Char(Head(text)) \o Utf8(Tail(text))

\* The bytes that reach standard output of print(text) for the outcome out.
\* A device that stops taking bytes stops at any byte, inside a character
\* as well as between two.
PrintWrites(out, n, text) ==
    IF out = "written" THEN Utf8(text \o <<NL>>)
    ELSE IF out \in {"refused", "lost"} THEN SubSeq(Utf8(text), 1, n)
    ELSE <<>>

\* str(e) of the exception print(text) raises for the outcome out.
PrintRaises(out, text) ==
    IF out = "unencodable" THEN EncodeErrorText(text) ELSE StrError("ENOSPC")

\* s.startswith(p)
StartsWith(s, p) == Len(s) >= Len(p) /\ SubSeq(s, 1, Len(p)) = p

\* The exception in flight was raised by os.scandir.
ListingRaised == \E e \in {EACCES, ENOENT, ENOTDIR} : StartsWith(exc, e)

\* "Error generating directory tree: "
ErrorPrefix ==
    <<"E", "r", "r", "o", "r", " ", "g", "e", "n", "e", "r", "a", "t", "i",
      "n", "g", " ", "d", "i", "r", "e", "c", "t", "o", "r", "y", " ", "t",
      "r", "e", "e", ":", " ">>

\* print(tree.generate_tree()): the text, then print's own newline, as far as
\* standard output takes them.  The call is inside the try: an exception of
\* print goes to the handler.
PrintTree(out, n) ==
    /\ pc = "return"
    /\ caller = "print"
    /\ out \in PrintOutcomes(tree_str)
    /\ out \notin {"refused", "lost"} => n = 0
    /\ n <= Len(Utf8(tree_str))
    /\ stdout' = stdout \o PrintWrites(out, n, tree_str)
    /\ IF out \in {"unencodable", "refused"}
       THEN /\ pc' = "raised"
            /\ exc' = PrintRaises(out, tree_str)
       ELSE /\ pc' = "printed"
            /\ UNCHANGED exc
    /\ UNCHANGED <<fs, path, root_dir, tree_str, stack, caller, rendered,
                   prev, failed>>

\* except Exception as e: print(f"Error generating directory tree: {str(e)}")
\* Nothing catches an exception of this print.  A stream that raised in the
\* try is not None, and a device that refused the print of the try has no
\* room for this one, nothing else running between the two: an unbuffered
\* stream raises again with nothing written, a buffered one takes the line,
\* print returns, and the line is lost when the buffer is flushed.
PrintError(out, n) ==
    /\ pc = "raised"
    /\ caller = "print"
    /\ LET line == ErrorPrefix \o exc
       IN  /\ out \in PrintOutcomes(line)
           /\ out \notin {"refused", "lost"} => n = 0
           /\ out = "none" => ListingRaised
           /\ exc = ENOSPC => (out \in {"refused", "lost"} /\ n = 0)
           /\ n <= Len(Utf8(line))
           /\ stdout' = stdout \o PrintWrites(out, n, line)
           /\ IF out \in {"unencodable", "refused"}
              THEN /\ pc' = "escaped"
                   /\ exc' = PrintRaises(out, line)
              ELSE /\ pc' = "printed"
                   /\ UNCHANGED exc
    /\ UNCHANGED <<fs, path, root_dir, tree_str, stack, caller, rendered,
                   prev, failed>>

\* print_directory_tree is over, by a normal return or by the exception of
\* the handler's print; its object and its output are gone.
PrintReturn ==
    /\ pc \in {"printed", "escaped"}
    /\ pc' = "idle"
    /\ caller' = "none"
    /\ path' = <<>>
    /\ root_dir' = <<>>
    /\ tree_str' = <<>>
    /\ exc' = <<>>
    /\ stdout' = <<>>
    /\ rendered' = <<>>
    /\ UNCHANGED <<fs, stack, prev, failed>>

\* ------------------------------------------------------------ specification
Init ==
    /\ rootKind \in {"dir", "file", "missing"}
    /\ disk = [d \in {<<>>} |-> <<>>]
    /\ path = <<>>
    /\ root_dir = <<>>
    /\ tree_str = <<>>
    /\ stack = <<>>
    /\ pc = "idle"
    /\ caller = "none"
    /\ exc = <<>>
    /\ stdout = <<>>
    /\ rendered = <<>>
    /\ prev = <<>>
    /\ failed = FALSE

\* A step of the walk.
WalkStep == (\E err \in {NoError} \cup ListErrors : WalkEntry(err)) \/ WalkReturn

\* The steps of a program that uses the class itself: it constructs a
\* DirectoryTree, calls generate_tree on it any number of times and drops it.
TreeNext ==
    \/ Grow(Entries, MaxEntries, MaxDepth)
    \/ \E arg \in RootArgs : Construct(arg)
    \/ Drop
    \/ \E err \in RootOutcomes : GenerateTree(err)
    \/ \E err \in {NoError} \cup ListErrors : WalkEntry(err)
    \/ WalkReturn
    \/ GenerateReturn
    \/ GenerateRaise

\* The same program on the deeper file systems.
DeepTreeNext ==
    \/ Grow(DeepEntries, MaxDeepEntries, MaxDeepDepth)
    \/ \E arg \in RootArgs : Construct(arg)
    \/ Drop
    \/ \E err \in RootOutcomes : GenerateTree(err)
    \/ \E err \in {NoError} \cup ListErrors : WalkEntry(err)
    \/ WalkReturn
    \/ GenerateReturn
    \/ GenerateRaise

\* The steps of a program that calls print_directory_tree.
Next ==
    \/ Grow(PrintedEntries, MaxEntries, MaxDepth)
    \/ \E arg \in RootArgs, err \in RootOutcomes : PrintDirectoryTree(arg, err)
    \/ \E err \in {NoError} \cup ListErrors : WalkEntry(err)
    \/ WalkReturn
    \/ \E out \in PrintOutcomes(tree_str), n \in 0..Len(Utf8(tree_str)) :
          PrintTree(out, n)
    \/ \E out \in PrintOutcomes(ErrorPrefix \o exc),
          n \in 0..Len(Utf8(ErrorPrefix \o exc)) : PrintError(out, n)
    \/ PrintReturn

\* DirectoryTree used by itself.
TreeSpec == Init /\ [][TreeNext]_vars

\* The interpreter runs a call that has started to its end: a walk that can
\* take a step takes it.
FairTreeSpec == TreeSpec /\ WF_vars(WalkStep)

\* DirectoryTree used by itself on the deeper file systems.
DeepTreeSpec == Init /\ [][DeepTreeNext]_vars

\* print_directory_tree.
Spec == Init /\ [][Next]_vars

\* ------------------------------------------------------------ reading the text
\* text.split("\n"): the lines of a text; a text that ends with a newline
\* ends with an empty piece.
RECURSIVE LinesOf(_, _)
LinesOf(text, cur) ==
    IF text = <<>> THEN <<cur>>
    ELSE IF Head(text) = NL THEN <<cur>> \o LinesOf(Tail(text), <<>>)
    ELSE LinesOf(Tail(text), Append(cur, Head(text)))

TextLines == LinesOf(tree_str, <<>>)

Range(seq) == { seq[i] : i \in 1..Len(seq) }

\* A hidden name begins with a dot.
HiddenName(name) == Head(name) = "."

\* An entry that is reachable from the root through non-hidden directories
\* and is not hidden itself.
Shown(node) == \A i \in 1..Len(node) : ~HiddenName(node[i])
ShownNodes == { n \in Nodes : Shown(n) }

\* n lies below the directory d.
Under(d, n) == Len(n) > Len(d) /\ SubSeq(n, 1, Len(d)) = d

\* The visible children of the directory d.
VisibleKids(d) == { n \in Nodes : Len(n) = Len(d) + 1 /\ Parent(n) = d
                                  /\ ~HiddenName(NameOf(n)) }

\* a comes before b in case-insensitive name order.
NameBefore(a, b) == StrLess(Lower(NameOf(a)), Lower(NameOf(b)))

\* The place of the entry n in the platform's listing of its directory.
Listed(n) == CHOOSE i \in 1..Len(disk[Parent(n)]) : disk[Parent(n)][i].name = NameOf(n)

\* The sibling a comes before the sibling b in sort order: by lowered name,
\* and in the order of the listing when the lowered names are the same.
SortBefore(a, b) ==
    \/ NameBefore(a, b)
    \/ Lower(NameOf(a)) = Lower(NameOf(b)) /\ Listed(a) < Listed(b)

\* n is the last of its parent's visible children in sort order.
LastVisible(n) == \A m \in VisibleKids(Parent(n)) \ {n} : SortBefore(m, n)

\* In the lines L of the buffer, the line of the i-th rendered entry and its
\* three parts: the prefix of one four-character group per directory between
\* the root and the entry, the four-character connector, the name.
LineOfEntry(L, i) == L[i + 1]
GroupsOf(i) == Len(rendered[i]) - 1
LineGroup(L, i, j) == SubSeq(L[i + 1], 4 * (j - 1) + 1, 4 * j)
LineConnector(L, i) == SubSeq(L[i + 1], 4 * GroupsOf(i) + 1, 4 * GroupsOf(i) + 4)
LineName(L, i) == SubSeq(L[i + 1], 4 * GroupsOf(i) + 5, Len(L[i + 1]))

\* The position of a rendered node.
Index(n) == CHOOSE i \in 1..Len(rendered) : rendered[i] = n

\* Every line of the buffer but the root line is the line of one rendered
\* entry, in order, and the buffer ends with a newline.
LinesMatchRendered(L) ==
    /\ Len(L) = Len(rendered) + 2
    /\ L[Len(L)] = <<>>
    /\ \A i \in 1..Len(rendered) : LineName(L, i) = NameOf(rendered[i])

\* One line per shown entry and none for any other, whatever the first line is.
OneLinePerShownEntry(L) ==
    /\ LinesMatchRendered(L)
    /\ \A i, j \in 1..Len(rendered) : rendered[i] = rendered[j] => i = j
    /\ Range(rendered) = ShownNodes

\* ------------------------------------------------------------ claims
\* C1 (as amended): when generate_tree returns, the first line of the text is
\* the root path as pathlib renders it, str(Path(root)), which is the path
\* given only when that is already in pathlib's form; it is followed by
\* exactly one line for each entry that is reachable through non-hidden
\* directories and is not hidden itself, and by no other line.
C1_TreeListsShownEntries ==
    pc = "return" =>
        LET L == TextLines
        IN  /\ L[1] = PathStr(path)
            /\ OneLinePerShownEntry(L)

\* C1 as stated: the first line is the root path verbatim.
C1_RootLineVerbatim ==
    pc = "return" =>
        LET L == TextLines
        IN  /\ L[1] = path
            /\ OneLinePerShownEntry(L)

\* A returned tree for a path pathlib rewrites, with a rendered entry beside
\* a hidden directory that holds an entry with a visible name.
C1_Witness ==
    /\ pc = "return"
    /\ path # PathStr(path)
    /\ \E n \in Nodes : Len(n) = 2 /\ HiddenName(n[1]) /\ ~HiddenName(n[2])
    /\ rendered # <<>>

\* C2: in every directory whose loop has run to its end, each visible child
\* has one line; the child that is last in sort order has the corner
\* connector and every other child the tee, also when a hidden entry sorts
\* after the last visible one.
C2_OneCornerPerDirectory ==
    pc = "return" =>
        LET L == TextLines
        IN  \A d \in {<<>>} \cup (Range(rendered) \cap DirNodes) :
                /\ VisibleKids(d) \subseteq Range(rendered)
                /\ \A n \in VisibleKids(d) :
                      LineConnector(L, Index(n)) = IF LastVisible(n) THEN last ELSE tee
                /\ VisibleKids(d) # {} =>
                      Cardinality({ n \in VisibleKids(d) :
                                      LineConnector(L, Index(n)) = last }) = 1

\* A walked directory below the root with a visible child and a hidden entry
\* that sorts after every visible child.
C2_Witness ==
    /\ pc = "return"
    /\ \E d \in Range(rendered) \cap DirNodes :
          /\ VisibleKids(d) # {}
          /\ \E h \in Nodes :
                /\ Len(h) = Len(d) + 1 /\ Parent(h) = d /\ HiddenName(NameOf(h))
                /\ \A n \in VisibleKids(d) : StrLess(Lower(NameOf(n)), Lower(NameOf(h)))

\* C3: of two visible children of one directory, the one whose lowered name
\* is smaller is rendered first, before the other and before everything
\* below the other.
C3_SiblingsInNameOrder ==
    \A b \in Range(rendered) : \A a \in VisibleKids(Parent(b)) :
        NameBefore(a, b) =>
            /\ a \in Range(rendered)
            /\ Index(a) < Index(b)
            /\ \A x \in Range(rendered) : Under(b, x) => Index(a) < Index(x)

\* Two visible siblings whose order by lowered name is the reverse of their
\* order by raw name, the second a directory with a rendered child.
C3_Witness ==
    /\ pc = "return"
    /\ \E a, b \in Range(rendered) :
          /\ Len(a) = Len(b) /\ Parent(a) = Parent(b)
          /\ NameBefore(a, b)
          /\ StrLess(NameOf(b), NameOf(a))
          /\ \E x \in Range(rendered) : Under(b, x)

\* C4: the line of an entry k directories below the root starts with k groups
\* of four characters, the j-th being four spaces when the j-th directory on
\* the way from the root is the last visible child of its parent and the
\* vertical bar with three spaces when it is not; then comes the connector.
C4_PrefixFollowsAncestors ==
    rendered # <<>> =>
        LET L == TextLines
        IN  \A i \in 1..Len(rendered) :
                /\ Len(LineOfEntry(L, i)) = 4 * GroupsOf(i) + 4 + Len(NameOf(rendered[i]))
                /\ LineConnector(L, i) \in {tee, last}
                /\ \A j \in 1..GroupsOf(i) :
                      LineGroup(L, i, j) = IF LastVisible(SubSeq(rendered[i], 1, j))
                                           THEN <<" ", " ", " ", " ">>
                                           ELSE <<"U+2502", " ", " ", " ">>

\* A returned tree with an entry two directories below the root whose line
\* has two different groups: the outer directory is not the last of its
\* siblings and the inner one is.
C4_Witness ==
    /\ pc = "return"
    /\ \E i \in 1..Len(rendered) :
          /\ GroupsOf(i) = 2
          /\ ~LastVisible(SubSeq(rendered[i], 1, 1))
          /\ LastVisible(SubSeq(rendered[i], 1, 2))
          /\ LineGroup(TextLines, i, 1) = branch
          /\ LineGroup(TextLines, i, 2) = indent

\* C5: a listing that fails stops the walk where it is: every activation is
\* gone and the failing directory's line is the last one appended.
\* print_directory_tree then writes the one line "Error generating directory
\* tree: <str(e)>" and nothing of the buffer, and returns normally without
\* raising; when no listing fails it writes the complete tree.  It never
\* writes both and never writes nothing.
C5_TreeOrErrorLine ==
    /\ (pc = "raised" /\ ListingRaised) =>
          /\ stack = <<>>
          /\ LinesMatchRendered(TextLines)
          /\ rendered # <<>> =>
                /\ rendered[Len(rendered)] \in DirNodes
                /\ \E e \in ListErrors :
                      exc = ErrorText(e, NodePath(root_dir, rendered[Len(rendered)]))
    /\ pc # "escaped"
    /\ pc = "printed" =>
          /\ stack = <<>>
          /\ caller = "print"
          /\ IF exc = <<>>
             THEN /\ OneLinePerShownEntry(TextLines)
                  /\ StartsWith(stdout, Utf8(tree_str))
             ELSE /\ stdout = Utf8(ErrorPrefix \o exc \o <<NL>>)
                  /\ Len(LinesOf(stdout, <<>>)) = 2

\* C6: a generate_tree call on an object returns the text the object's last
\* successful call returned when the directory tree is the same; the buffer it
\* returns holds the root line and the lines this call appended and nothing of
\* an earlier call, complete or failed.
C6_SameTreeSameText ==
    (pc = "return" /\ caller = "direct") =>
        /\ LET L == TextLines
           IN  L[1] = root_dir /\ LinesMatchRendered(L)
        /\ (prev # <<>> /\ prev[1].fs = fs) => tree_str = prev[1].text

\* A call returns on an object that has returned a tree before and has also
\* failed part-way before, in a directory with two names that differ in case
\* only.
C6_Witness ==
    /\ pc = "return"
    /\ caller = "direct"
    /\ failed
    /\ prev # <<>>
    /\ prev[1].fs = fs
    /\ \E a, b \in Range(rendered) :
          a # b /\ Parent(a) = Parent(b) /\ Lower(NameOf(a)) = Lower(NameOf(b))

\* C7: on a successful run, one whose output holds the whole tree, the
\* output of print_directory_tree is the tree and ends with the newline of
\* its last line: one newline, no blank line.
C7_OutputEndsWithTreeNewline ==
    (pc = "printed" /\ exc = <<>> /\ StartsWith(stdout, Utf8(tree_str))) =>
        stdout = Utf8(tree_str)

\* The visible sibling that follows n in sort order, if there is one.
NextSiblings(n) ==
    { s \in VisibleKids(Parent(n)) :
        /\ SortBefore(n, s)
        /\ \A m \in VisibleKids(Parent(n)) : ~(SortBefore(n, m) /\ SortBefore(m, s)) }

\* C8: a directory with no visible entry adds no line.  A root without one
\* gives the root line alone; after the line of such a subdirectory comes the
\* line of its next sibling or, when it is the last of its group, a line of a
\* shallower group or the end of the text.
C8_NothingBelowEmptyDirectory ==
    pc = "return" =>
        /\ LinesMatchRendered(TextLines)
        /\ VisibleKids(<<>>) = {} => tree_str = root_dir \o <<NL>>
        /\ \A i \in 1..Len(rendered) :
              (rendered[i] \in DirNodes /\ VisibleKids(rendered[i]) = {}) =>
                  IF NextSiblings(rendered[i]) # {}
                  THEN i < Len(rendered) /\ rendered[i + 1] \in NextSiblings(rendered[i])
                  ELSE i = Len(rendered) \/ Len(rendered[i + 1]) < Len(rendered[i])

\* A rendered directory that holds hidden entries and no visible one, with a
\* sibling after it.
C8_Witness ==
    /\ pc = "return"
    /\ \E i \in 1..Len(rendered) :
          /\ rendered[i] \in DirNodes
          /\ VisibleKids(rendered[i]) = {}
          /\ disk[rendered[i]] # <<>>
          /\ NextSiblings(rendered[i]) # {}

\* The depth of the deepest directory the walk can enter; the root is at 0.
RECURSIVE MaxLen(_)
MaxLen(S) ==
    IF S = {} THEN 0
    ELSE LET n == CHOOSE x \in S : TRUE
             m == MaxLen(S \ {n})
         IN  IF Len(n) > m THEN Len(n) ELSE m

DeepestShownDir == MaxLen(ShownNodes \cap DirNodes)

\* C9: the activations of _walk_directory never number more than one plus
\* the depth of the deepest visible directory, and a walk that has started
\* ends: generate_tree returns or raises.
C9_WalkEndsWithinDepth ==
    /\ [](Len(stack) <= 1 + DeepestShownDir)
    /\ ((pc = "walk") ~> (pc \in {"return", "raised"}))

\* The walk is in a directory at the deepest level the file system allows.
C9_Witness ==
    /\ pc = "walk"
    /\ Len(stack) = MaxDepth + 1
    /\ DeepestShownDir = MaxDepth

\* C10: the text is a pre-order listing.  The line of an entry comes after
\* its parent's; the lines of what lies below a directory follow the
\* directory's own line without a gap and without a line of anything else
\* between them, and when the walk is over they are all there.
C10_SubtreeIsOneBlock ==
    /\ pc \in {"walk", "return", "raised"} => LinesMatchRendered(TextLines)
    /\ \A i \in 1..Len(rendered) :
          /\ Len(rendered[i]) > 1 =>
                \E h \in 1..(i - 1) : rendered[h] = Parent(rendered[i])
          /\ \A j \in (i + 1)..Len(rendered) :
                Under(rendered[i], rendered[j]) =>
                    \A k \in (i + 1)..j : Under(rendered[i], rendered[k])
          /\ pc = "return" =>
                \A n \in ShownNodes : Under(rendered[i], n) => n \in Range(rendered)

\* A directory with a rendered child and a sibling rendered after that child.
C10_Witness ==
    /\ pc = "return"
    /\ \E i, j, k \in 1..Len(rendered) :
          /\ i < j /\ j < k
          /\ Under(rendered[i], rendered[j])
          /\ Len(rendered[k]) = Len(rendered[i])

====
